---- MODULE Spec2Model ----
(***************************************************************************)
(* Model of the serverless upload relay (api/upload.js), of its per-IP     *)
(* rate limiter and of the bulk remover (api/remove.js).                   *)
(*                                                                         *)
(* Every handler is cut at its suspension points (the awaits on fetch and  *)
(* on setTimeout): one action is the synchronous code between two awaits.  *)
(* Time is a global clock in ticks; the durations of the code (window,     *)
(* polling ceiling, polling interval, minute) are scaled to a few ticks.   *)
(***************************************************************************)
EXTENDS Integers, Sequences, FiniteSets, TLC

\* ---------------------------------------------------------------- bounds
\* RATE_LIMIT uploads per RATE_WINDOW ticks (50 per hour in the deployment).
RATE_LIMIT == 2
RATE_WINDOW == 3
\* ticks per minute: resetIn is reported in minutes, rounded up
MINUTE == 2
\* pollForMediaReady(…, maxWaitMs = 15000, pollIntervalMs = 1000), in ticks
maxWaitMs == 2
pollIntervalMs == 1
\* the clock runs to MaxTime (and on while a handler sleeps on a timer)
MaxTime == 4
\* calls enumerated beyond the capacity of one window
MaxOver == 1
\* the size ceiling of the specification, in bytes
SizeCeiling == 2
\* the log of a request counts its calls of one kind up to MaxCalls
MaxCalls == 3
\* the remover: at most MAX_DELETE_PER_REQUEST matches are deleted (1000 in
\* the deployment), in batches of batchSize (10), listed by pages of pageSize (50)
MAX_DELETE_PER_REQUEST == 3
batchSize == 2
pageSize == 2
\* the platform holds at most MaxFiles files
MaxFiles == 5

\* ---------------------------------------------------------------- values
Null == "null"
\* an admin token pasted with a line break in it
BadToken == "shpat_to<LF>ken"
NoInt == -1

Identities == {"ipA", "ipB"}
Reqs == {"r1", "r2"}
Methods == {"POST", "OPTIONS", "GET"}
Variants == {"poll", "recheck", "form"}

\* the url of an asset: null, the empty string, or a url
Url == "https://cdn/file"
UrlVals == {Null, "", Url}
Truthy(v) == v \notin {Null, ""}

\* The id the platform gives the asset created for request r, and the staged
\* target it issues to request r.
AssetIdOf(r) == IF r = "r1" THEN "gid://1" ELSE "gid://2"
AssetIds == {AssetIdOf(r) : r \in Reqs}
TargetOf(r) == IF r = "r1" THEN "target1" ELSE "target2"

\* ------------------------------------------------------------- data URIs
\* An image string "data:<mime>;base64,<payload>" is kept as its parts; the
\* payload is a sequence of characters of the base64 alphabet.
ImgOne == [mime |-> "image/png", base64 |-> TRUE, payload |-> <<"A", "A">>]
ImgBig == [mime |-> "image/png", base64 |-> TRUE, payload |-> <<"A", "A", "A", "A">>]
ImgZero == [mime |-> "image/png", base64 |-> TRUE, payload |-> <<"A">>]
ImgNoPayload == [mime |-> "image/png", base64 |-> TRUE, payload |-> <<>>]
ImgNoMarker == [mime |-> "image/png", base64 |-> FALSE, payload |-> <<"A", "A">>]
ImgBadMime == [mime |-> "image/x.y", base64 |-> TRUE, payload |-> <<"A", "A">>]
ImgText == [mime |-> "text/plain", base64 |-> TRUE, payload |-> <<"A", "A">>]
\* a truthy JSON value that is not a string, as in {"image": 5}
ImgNotString == [mime |-> "not a string", base64 |-> FALSE, payload |-> <<>>]
Images == {ImgOne, ImgBig, ImgZero, ImgNoPayload, ImgNoMarker, ImgBadMime, ImgText,
           ImgNotString}
NoImage == [mime |-> Null, base64 |-> FALSE, payload |-> <<>>]

\* typeof image === 'string': only a string has the method startsWith
IsString(img) == img # ImgNotString

\* image.startsWith('data:image/')
StartsWithDataImage(img) == img.mime \in {"image/png", "image/x.y"}

\* image.match(/^data:([A-Za-z-+/]+);base64,(.+)$/)
MatchesDataUri(img) ==
    /\ img.mime \in {"image/png", "text/plain"}
    /\ img.base64
    /\ Len(img.payload) >= 1

\* Buffer.from(base64Data, 'base64').length: every character carries 6 bits,
\* so 4 characters give 3 bytes and a lone character gives none
BufferLength(p) == (Len(p) * 3) \div 4

\* req.body: absent, or an object with the fields the handlers read
NoBody == [present |-> FALSE, filename |-> FALSE, image |-> NoImage, fileId |-> Null]
Body(fn, img, fid) == [present |-> TRUE, filename |-> fn, image |-> img, fileId |-> fid]
Bodies ==
    {NoBody, Body(FALSE, ImgOne, Null), Body(TRUE, NoImage, Null)}
    \cup {Body(TRUE, img, Null) : img \in Images}
    \cup {Body(FALSE, NoImage, "gid://1")}


\* ----------------------------------------------------------------- state
VARIABLES
    variant,        \* which handler of api/upload.js is deployed
    env,            \* process.env: SHOPIFY_SHOP, SHOPIFY_ADMIN_TOKEN, ADMIN_PASSWORD
    now,            \* Date.now(), in ticks
    rateLimitMap,   \* identity -> its RateWindow
    admit,          \* the limiter's evaluation in the step just taken, if any
    req,            \* upload request slot -> the handler's locals and its response
    store,          \* the files of the platform, in the order of its listing
    rm,             \* the remove request: the handler's locals and its response
    cleared,        \* history: the pattern whose matches the previous remove
                    \* request deleted one and all, if it did, and whether
                    \* there were any
    admitted        \* history: identity -> the number of its calls the limiter
                    \* has admitted since its current window started

\* ------------------------------------------------------------- responses
NoRes == [status |-> 0, body |-> FALSE, success |-> FALSE, error |-> Null,
          details |-> Null, url |-> Null, fileId |-> Null, resetIn |-> NoInt,
          ready |-> Null, fileStatus |-> Null, quotes |-> Null]

\* res.status(s).end()
EndRes(s) == [NoRes EXCEPT !.status = s]
\* res.status(s).json({ success: false, error: e, details: d })
Failure(s, e, d) ==
    [NoRes EXCEPT !.status = s, !.body = TRUE, !.success = FALSE, !.error = e, !.details = d]
\* res.status(200).json({ success: true, url: u, fileId: id, message })
Success(u, id) ==
    [NoRes EXCEPT !.status = 200, !.body = TRUE, !.success = TRUE, !.url = u, !.fileId = id]
\* res.status(202).json({ success: true, message, status: st, fileId: id, ready: false })
StillProcessing(st, id) ==
    [NoRes EXCEPT !.status = 202, !.body = TRUE, !.success = TRUE, !.fileStatus = st,
                  !.fileId = id, !.ready = "false"]

InternalError == Failure(500, "Internal server error", "exception")
StagingError(d) == Failure(500, "Failed to create staged upload", d)
TransferError(d) == Failure(500, "Failed to upload file to storage", d)
CreateError(d) == Failure(500, "Failed to create file in Shopify", d)
NoUrlError == Failure(500, "File created but no URL available", "no url")

\* ------------------------------------------------------------- requests
NoHdr == [limit |-> NoInt, remaining |-> NoInt]
NoFile == [typename |-> Null, id |-> Null, status |-> Null, url |-> Null]
NoCalls == [stage |-> 0, put |-> 0, create |-> 0, status |-> 0]
\* one more call in the log
Logged(n) == IF n < MaxCalls THEN n + 1 ELSE n

\* what the outbound calls of a request were made with: the url of the PUT,
\* the originalSource of fileCreate, the id of the status queries
NoUse == [putTo |-> Null, createFrom |-> Null, polled |-> Null]

FreeReq == [pc |-> "free", method |-> Null, ip |-> Null, body |-> NoBody,
            cors |-> FALSE, hdr |-> NoHdr, size |-> NoInt, stagedTarget |-> Null,
            createdFile |-> NoFile, endTime |-> NoInt, wakeAt |-> NoInt,
            calls |-> NoCalls, used |-> NoUse, res |-> NoRes]

\* the handler returns response x: its locals die, the log of its calls stays
Respond(q, x) ==
    [FreeReq EXCEPT !.pc = "done", !.method = q.method, !.ip = q.ip, !.body = q.body,
                    !.cors = q.cors, !.hdr = q.hdr, !.calls = q.calls, !.used = q.used,
                    !.res = x]

\* ---------------------------------------------------------- rate limiter
NoWindow == [count |-> 0, windowStart |-> NoInt]

\* no window exists, or the current window has elapsed since windowStart
WindowElapsed(w, t) == w.windowStart = NoInt \/ t - w.windowStart >= RATE_WINDOW

\* minutes until windowStart + RATE_WINDOW, rounded up
ResetIn(w, t) == (w.windowStart + RATE_WINDOW - t + MINUTE - 1) \div MINUTE

\* CountCall restarting the window without resetting its count
CountCall_keepCount(w, t) ==
    LET cur == IF WindowElapsed(w, t) THEN [count |-> w.count, windowStart |-> t] ELSE w
    IN  [cur EXCEPT !.count = @ + 1]

\* the window of identity ip after one more call at time t
CountCall(w, t) ==
    LET cur == IF WindowElapsed(w, t) THEN [count |-> 0, windowStart |-> t] ELSE w
    IN  [cur EXCEPT !.count = @ + 1]

\* checkRateLimit comparing the count before the increment: one call too many
checkRateLimit_offByOne(map, ip, t) ==
    LET w == CountCall(map[ip], t)
    IN  [map |-> [map EXCEPT ![ip] = w],
         allowed |-> w.count <= RATE_LIMIT + 1,
         remaining |-> IF w.count > RATE_LIMIT THEN 0 ELSE RATE_LIMIT - w.count,
         resetIn |-> ResetIn(w, t)]

\* checkRateLimit keeping one window for all callers
checkRateLimit_oneWindow(map, ip, t) ==
    LET w == CountCall(map["ipA"], t)
    IN  [map |-> [map EXCEPT !["ipA"] = w],
         allowed |-> w.count <= RATE_LIMIT,
         remaining |-> IF w.count > RATE_LIMIT THEN 0 ELSE RATE_LIMIT - w.count,
         resetIn |-> ResetIn(w, t)]

\* checkRateLimit reporting what remained before the call was counted
checkRateLimit_remainingBefore(map, ip, t) ==
    LET w == CountCall(map[ip], t)
    IN  [map |-> [map EXCEPT ![ip] = w],
         allowed |-> w.count <= RATE_LIMIT,
         remaining |-> IF w.count > RATE_LIMIT THEN 0 ELSE RATE_LIMIT - w.count + 1,
         resetIn |-> ResetIn(w, t)]

\* checkRateLimit with the lost update of a read-modify-write cut by an
\* await: the count of a live window is compared but not written back
checkRateLimit_lostUpdate(map, ip, t) ==
    LET w == CountCall(map[ip], t)
    IN  [map |-> IF WindowElapsed(map[ip], t) THEN [map EXCEPT ![ip] = w] ELSE map,
         allowed |-> w.count <= RATE_LIMIT,
         remaining |-> IF w.count > RATE_LIMIT THEN 0 ELSE RATE_LIMIT - w.count,
         resetIn |-> ResetIn(w, t)]

\* admit(identity) -> {allowed, remaining, resetIn}, with the table it leaves
checkRateLimit(map, ip, t) ==
    LET w == CountCall(map[ip], t)
    IN  [map |-> [map EXCEPT ![ip] = w],
         allowed |-> w.count <= RATE_LIMIT,
         remaining |-> IF w.count > RATE_LIMIT THEN 0 ELSE RATE_LIMIT - w.count,
         resetIn |-> ResetIn(w, t)]

\* RateLimitHeaders omitting the headers of a denied call
RateLimitHeaders_allowedOnly(lim) ==
    IF lim.allowed THEN [limit |-> RATE_LIMIT, remaining |-> lim.remaining]
    ELSE [limit |-> NoInt, remaining |-> NoInt]

\* res.setHeader('X-RateLimit-Limit', …), res.setHeader('X-RateLimit-Remaining', …)
RateLimitHeaders(lim) == [limit |-> RATE_LIMIT, remaining |-> lim.remaining]

RateLimited(lim) ==
    [Failure(429, "Rate limit exceeded", "try again later") EXCEPT !.resetIn = lim.resetIn]

\* SweepMap clearing the whole table, live windows included
SweepMap_all(map, t) == [i \in Identities |-> NoWindow]

\* the periodic cleanup: identities whose window has expired are dropped
SweepMap(map, t) ==
    [i \in Identities |-> IF WindowElapsed(map[i], t) THEN NoWindow ELSE map[i]]


\* -------------------------------------------------- the upload handlers
\* if (!shop || !token)
\* 'X-Shopify-Access-Token': token, the header of every call to the platform:
\* fetch rejects, before it sends anything, a header value with a line break
\* or a NUL in it, with a TypeError whose message quotes the value
\* (Headers.append: "<value>" is an invalid header value.)
isValidHeaderValue(value) == value # BadToken
\* the response of a catch that returns error.message for that TypeError:
\* quotes is the value the text of the response quotes
Thrown(value) ==
    [Failure(500, "Internal server error", "is an invalid header value")
        EXCEPT !.quotes = value]

MissingCredentials_shopOnly(e) ==
    e.shop = Null
MissingCredentials(e) ==
    e.shop = Null \/ e.token = Null

ConfigError ==
    Failure(500, "Server configuration error - missing credentials", "env not configured")

\* const { filename, image } = req.body || {}; … the three 400 checks
ValidationError(v, b) ==
    IF v = "form" /\ ~b.present THEN InternalError
    ELSE IF ~b.filename \/ b.image = NoImage
        THEN Failure(400, "Missing filename or image data", Null)
    ELSE IF ~IsString(b.image) THEN InternalError
    ELSE IF ~StartsWithDataImage(b.image) THEN Failure(400, "Invalid image format", Null)
    ELSE IF ~MatchesDataUri(b.image) THEN Failure(400, "Invalid base64 format", Null)
    ELSE NoRes

\* the try block of the handler up to its first await
StartPipeline(v, e, q) ==
    IF MissingCredentials(e) THEN Respond(q, ConfigError)
    ELSE IF v = "recheck" /\ Truthy(q.body.fileId)
        THEN IF isValidHeaderValue(e.token)
                THEN [q EXCEPT !.pc = "recheck", !.calls.status = Logged(@),
                               !.used.polled = q.body.fileId]
                ELSE Respond(q, Failure(500, "Failed to check file status", Null))
    ELSE IF ValidationError(v, q.body) # NoRes THEN Respond(q, ValidationError(v, q.body))
    ELSE IF ~isValidHeaderValue(e.token)
        THEN IF v = "form" THEN Respond(q, Thrown(e.token))
             ELSE Respond(q, StagingError("network error during stagedUploadsCreate"))
    ELSE [q EXCEPT !.pc = "stage", !.size = BufferLength(q.body.image.payload),
                   !.calls.stage = Logged(@)]

\* what the limiter saw and answered for one call
NoAdmit == [slot |-> Null, ip |-> Null, before |-> NoWindow, allowed |-> FALSE,
            remaining |-> NoInt, resetIn |-> NoInt]

\* RateLimitGate as an advisory limiter: the quota headers are set, but a
\* denied request runs the pipeline all the same
RateLimitGate_advisory(v, e, map, t, q) ==
    LET lim == checkRateLimit(map, q.ip, t)
        q1 == [q EXCEPT !.hdr = RateLimitHeaders(lim)]
    IN  [map |-> lim.map,
         admit |-> [slot |-> Null, ip |-> q.ip, before |-> map[q.ip], allowed |-> lim.allowed,
                    remaining |-> lim.remaining, resetIn |-> lim.resetIn],
         req |-> StartPipeline(v, e, q1)]

\* the gate of the deployed handler, between method dispatch and pipeline:
\* admit the caller, set the quota headers, answer 429 when denied
RateLimitGate(v, e, map, t, q) ==
    LET lim == checkRateLimit(map, q.ip, t)
        q1 == [q EXCEPT !.hdr = RateLimitHeaders(lim)]
    IN  [map |-> lim.map,
         admit |-> [slot |-> Null, ip |-> q.ip, before |-> map[q.ip], allowed |-> lim.allowed,
                    remaining |-> lim.remaining, resetIn |-> lim.resetIn],
         req |-> IF lim.allowed THEN StartPipeline(v, e, q1)
                 ELSE Respond(q1, RateLimited(lim))]

\* SetCors leaving the preflight and the wrong-method answers without headers
SetCors_postOnly(q) == [q EXCEPT !.cors = (q.method = "POST")]

\* Object.keys(corsHeaders).forEach(key => res.setHeader(key, ...))
SetCors(q) == [q EXCEPT !.cors = TRUE]

\* handler(req, res) from its entry to its first await or its response
handler(v, e, map, t, q0) ==
    LET q == SetCors(q0) IN
    IF q.method = "OPTIONS"
        THEN [map |-> map, admit |-> NoAdmit, req |-> Respond(q, EndRes(200))]
    ELSE IF q.method # "POST"
        THEN [map |-> map, admit |-> NoAdmit,
              req |-> Respond(q, Failure(405, "Method not allowed", Null))]
    ELSE RateLimitGate(v, e, map, t, q)

\* the answers of the platform to stagedUploadsCreate
StageAnswers == {"network", "notJSON", "errors", "userErrors", "noData",
                 "noTargets", "noUrl", "ok"}

\* Transfer sending the bytes to the target a variable shared by all requests
\* holds: the one the first request was handed
Transfer_sharedTarget(q) ==
    [q EXCEPT !.pc = "put", !.calls.put = Logged(@), !.used.putTo = "target1"]

\* fetch(stagedTarget.url, { method: 'PUT', body: buffer, headers })
Transfer(q) ==
    [q EXCEPT !.pc = "put", !.calls.put = Logged(@), !.used.putTo = q.stagedTarget]

\* after await fetch(stagedUploadsCreate): the staged target, then the transfer
OnStaged(v, q, r, ans) ==
    IF v = "form" THEN
        IF ans \in {"errors", "userErrors"} THEN Respond(q, StagingError("errors"))
        ELSE IF ans = "ok"
            THEN Transfer([q EXCEPT !.stagedTarget = TargetOf(r)])
        ELSE Respond(q, InternalError)
    ELSE
        IF ans = "network" THEN Respond(q, StagingError("network error during stagedUploadsCreate"))
        ELSE IF ans = "notJSON" THEN Respond(q, StagingError("staged upload response not JSON"))
        ELSE IF ans \in {"errors", "userErrors"} THEN Respond(q, StagingError("errors"))
        ELSE IF ans = "noData" THEN Respond(q, InternalError)
        ELSE IF ans \in {"noTargets", "noUrl"}
            THEN Respond(q, StagingError("no staged target returned"))
        ELSE Transfer([q EXCEPT !.stagedTarget = TargetOf(r)])

\* the answers of the staged target to the transfer
PutAnswers == {"network", "notOk", "ok"}

\* OnTransferred sending the bytes again when the transfer did not get through
OnTransferred_retry(v, q, ans) ==
    IF ans = "notOk" THEN Respond(q, TransferError("upstream status and body"))
    ELSE IF ans = "network" THEN [q EXCEPT !.pc = "put", !.calls.put = Logged(@)]
    ELSE [q EXCEPT !.pc = "create", !.calls.create = Logged(@),
                   !.used.createFrom = q.stagedTarget]

\* after await fetch(stagedTarget.url): then the fileCreate call
OnTransferred(v, q, ans) ==
    IF ans = "notOk" THEN Respond(q, TransferError("upstream status and body"))
    ELSE IF ans = "network"
        THEN Respond(q, IF v = "form" THEN InternalError
                        ELSE TransferError("network error during upload to staged target"))
    ELSE [q EXCEPT !.pc = "create", !.calls.create = Logged(@),
                   !.used.createFrom = q.stagedTarget]

\* the files fileCreate can return for request r
MediaStates == {<<"PROCESSING", Null>>, <<"READY", Url>>, <<"READY", Null>>, <<"FAILED", Null>>}
FilesOf(r) ==
    {[typename |-> "GenericFile", id |-> AssetIdOf(r), status |-> Null, url |-> u] :
        u \in UrlVals}
    \cup {[typename |-> "MediaImage", id |-> AssetIdOf(r), status |-> m[1], url |-> m[2]] :
        m \in MediaStates}
    \cup {[typename |-> tn, id |-> AssetIdOf(r), status |-> Null, url |-> u] :
        tn \in {"Video", "Model3d"}, u \in {Null, Url}}
CreateFailures == {"network", "notJSON", "errors", "userErrors", "noData", "noFile"}
CreateAnswers(r) ==
    {[kind |-> k, file |-> NoFile] : k \in CreateFailures}
    \cup {[kind |-> "file", file |-> f] : f \in FilesOf(r)}

\* PollThrow answering without the id of the created file
PollThrow_noFileId(q, msg) ==
    Respond(q, [Failure(500, "Image processing timeout", msg) EXCEPT
                    !.fileStatus = q.createdFile.status])

\* throw inside pollForMediaReady, caught at the handler's catch (pollError)
PollThrow(q, msg) ==
    Respond(q, [Failure(500, "Image processing timeout", msg) EXCEPT
                    !.fileId = q.createdFile.id, !.fileStatus = q.createdFile.status])

TimeoutMessage == "Media processing timeout"

\* while (Date.now() < endTime) { … await fetch(status) … } throw timeout
PollLoop(q, t) ==
    IF t < q.endTime THEN [q EXCEPT !.pc = "pollFetch", !.calls.status = Logged(@),
                                    !.used.polled = q.createdFile.id]
    ELSE PollThrow(q, TimeoutMessage)

\* pollForMediaReady(shop, token, fileId): startTime, endTime, first loop test
pollForMediaReady(q, t) == PollLoop([q EXCEPT !.endTime = t + maxWaitMs], t)

\* the url the recheck handler extracts from a created file
ExtractUrl(f) == IF Truthy(f.url) THEN f.url ELSE Null

\* after await fetch(fileCreate): the created file, by handler
OnCreated(v, q, ans, t) ==
    LET f == ans.file IN
    IF v = "form" THEN
        IF ans.kind \in {"errors", "userErrors"} THEN Respond(q, CreateError("errors"))
        ELSE IF ans.kind # "file" THEN Respond(q, InternalError)
        ELSE IF f.typename = "GenericFile" THEN Respond(q, Success(f.url, f.id))
        ELSE Respond(q, Success(Null, Null))
    ELSE IF ans.kind \in {"network", "noData"}
        THEN Respond(q, CreateError("network error during fileCreate"))
    ELSE IF ans.kind = "notJSON" THEN Respond(q, CreateError("fileCreate response not JSON"))
    ELSE IF ans.kind \in {"errors", "userErrors"} THEN Respond(q, CreateError("errors"))
    ELSE IF ans.kind = "noFile" THEN Respond(q, CreateError("no file returned"))
    ELSE IF v = "recheck" THEN
        IF f.status # "READY" THEN Respond(q, StillProcessing(f.status, f.id))
        ELSE IF ExtractUrl(f) = Null THEN Respond(q, NoUrlError)
        ELSE Respond(q, Success(ExtractUrl(f), f.id))
    ELSE
        IF f.typename = "MediaImage"
            THEN pollForMediaReady([q EXCEPT !.createdFile = [f EXCEPT !.url = Null]], t)
        ELSE IF Truthy(f.url) THEN Respond(q, Success(f.url, f.id))
        ELSE Respond(q, NoUrlError)

\* the answers of the platform to the status query of node id
NodeStates == {<<"READY", Url>>, <<"READY", Null>>, <<"READY", "">>,
               <<"FAILED", Null>>, <<"PROCESSING", Null>>}
StatusFailures == {"network", "notJSON", "errors", "noNode"}
StatusAnswers ==
    {[kind |-> k, status |-> Null, url |-> Null] : k \in StatusFailures}
    \cup {[kind |-> "node", status |-> m[1], url |-> m[2]] : m \in NodeStates}

\* OnStatus with the wait between two polls left out (a timer of 0 ms)
OnStatus_noWait(q, ans, t) ==
    IF ans.kind = "network" THEN PollThrow(q, "fetch failed")
    ELSE IF ans.kind = "notJSON" THEN PollThrow(q, "Unexpected token")
    ELSE IF ans.kind = "errors" THEN PollThrow(q, "Failed to check media status")
    ELSE IF ans.kind = "noNode" THEN PollThrow(q, "Media not found")
    ELSE IF ans.status = "READY" THEN
        IF Truthy(ans.url) THEN Respond(q, Success(ans.url, q.createdFile.id))
        ELSE PollThrow(q, "Media ready but no URL available")
    ELSE IF ans.status = "FAILED" THEN PollThrow(q, "Media processing failed")
    ELSE [q EXCEPT !.pc = "pollSleep", !.wakeAt = t]

\* one iteration of the polling loop after await fetch(status)
OnStatus(q, ans, t) ==
    IF ans.kind = "network" THEN PollThrow(q, "fetch failed")
    ELSE IF ans.kind = "notJSON" THEN PollThrow(q, "Unexpected token")
    ELSE IF ans.kind = "errors" THEN PollThrow(q, "Failed to check media status")
    ELSE IF ans.kind = "noNode" THEN PollThrow(q, "Media not found")
    ELSE IF ans.status = "READY" THEN
        IF Truthy(ans.url) THEN Respond(q, Success(ans.url, q.createdFile.id))
        ELSE PollThrow(q, "Media ready but no URL available")
    ELSE IF ans.status = "FAILED" THEN PollThrow(q, "Media processing failed")
    ELSE [q EXCEPT !.pc = "pollSleep", !.wakeAt = t + pollIntervalMs]

\* the status-check branch (body {fileId}) after await fetch(getFile)
OnRecheck(q, ans) ==
    IF ans.kind \in {"network", "notJSON", "errors"}
        THEN Respond(q, Failure(500, "Failed to check file status", Null))
    ELSE IF ans.kind = "noNode" THEN Respond(q, Failure(404, "File not found", Null))
    ELSE IF ans.status # "READY" THEN Respond(q, StillProcessing(ans.status, q.body.fileId))
    ELSE IF ~Truthy(ans.url) THEN Respond(q, Failure(500, "File ready but no URL available", Null))
    ELSE Respond(q, Success(ans.url, q.body.fileId))


\* ---------------------------------------------------------------- remover
\* (src/api/remove.js)
\* A label (alt) and a search pattern are strings, kept as sequences of
\* characters; a file without a label (alt null) reads as '' (line 175).
LabelCP == <<"C", "P", "x">>
LabelXY == <<"x", "y">>
NoLabel == <<>>
Labels == {LabelCP, LabelXY, NoLabel}

NoPattern == <<>>
Patterns == {NoPattern, <<"x">>, <<"c", "P">>, <<"X", "Y">>}
Passwords == {Null, "pw", "wrong"}

\* String.prototype.toLowerCase, character by character
Lower(c) ==
    CASE c = "C" -> "c"
      [] c = "P" -> "p"
      [] c = "X" -> "x"
      [] c = "Y" -> "y"
      [] OTHER -> c
\* toLowerCase leaving the letters as they are: a case-sensitive match
toLowerCase_asIs(str) == str

\* String.prototype.toLowerCase, letter by letter
toLowerCase(str) == [k \in 1..Len(str) |-> Lower(str[k])]

\* String.prototype.includes: pat occurs in str as a contiguous run
includes(str, pat) ==
    \E k \in 0..(Len(str) - Len(pat)) : SubSeq(str, k + 1, k + Len(pat)) = pat

\* Matches with the two strings of includes exchanged
Matches_reversed(file, searchPattern) ==
    includes(toLowerCase(searchPattern), toLowerCase(file.alt))

\* the predicate of allFiles.filter: the label, lower-cased, contains the
\* lower-cased pattern
Matches(file, searchPattern) ==
    includes(toLowerCase(file.alt), toLowerCase(searchPattern))

\* the files of the platform: every sequence of at most MaxFiles files, the
\* k-th file created having id k
Stores ==
    UNION {{[k \in 1..n |-> [id |-> k, alt |-> f[k]]] : f \in [1..n -> Labels]}
            : n \in 0..MaxFiles}

Min(a, b) == IF a < b THEN a ELSE b

\* the body of a remove request: req.body || {}
NoRmBody == [present |-> FALSE, searchPattern |-> NoPattern, adminPassword |-> Null]
RmBody(pat, pw) == [present |-> TRUE, searchPattern |-> pat, adminPassword |-> pw]
RmBodies == {NoRmBody} \cup {RmBody(pat, pw) : pat \in Patterns, pw \in Passwords}

\* the response of a remove request
RmNoRes ==
    [status |-> 0, body |-> FALSE, success |-> FALSE, error |-> Null,
     message |-> Null, filesRemoved |-> NoInt, totalMatched |-> NoInt,
     details |-> <<>>, errors |-> <<>>, quotes |-> Null]
RmEnd(st) == [RmNoRes EXCEPT !.status = st]
RmFailure(st, e, m) ==
    [RmNoRes EXCEPT !.status = st, !.body = TRUE, !.error = e, !.message = m]
RmNothingFound ==
    [RmNoRes EXCEPT !.status = 200, !.body = TRUE, !.success = TRUE,
                    !.message = "No files found matching pattern",
                    !.filesRemoved = 0]
RmTooMany(n) ==
    [RmNoRes EXCEPT !.status = 400, !.body = TRUE, !.error = "Too many files",
                    !.message = "Please use a more specific search pattern",
                    !.totalMatched = n]
RmInternalError == RmFailure(500, "Internal server error", "error.message")
\* the outer catch when fetch has thrown the TypeError that quotes a header value
RmThrown(value) ==
    [RmFailure(500, "Internal server error", "is an invalid header value")
        EXCEPT !.quotes = value]

\* no call has been admitted yet
NoneAdmitted == [i \in Identities |-> 0]

\* no remove request has run clean before this one
NoneCleared == [pattern |-> NoPattern, any |-> FALSE]

\* the outbound calls of a remove request: the number of listing queries and
\* the id lists of its delete calls, in order
NoRmCalls == [list |-> 0, delete |-> <<>>]

FreeRm ==
    [pc |-> "free", method |-> Null, body |-> NoRmBody, cors |-> FALSE, allFiles |-> <<>>,
     cursor |-> NoInt, matchingFiles |-> <<>>, i |-> 0, deletedFiles |-> <<>>,
     errors |-> <<>>, calls |-> NoRmCalls, res |-> RmNoRes]

\* return res.status(..).json(..): the locals of the handler are gone
RmRespond(q, x) ==
    [FreeRm EXCEPT !.pc = "done", !.method = q.method, !.body = q.body, !.cors = q.cors,
                   !.calls = q.calls, !.res = x]

\* if (!adminPassword) ..401; if (adminPassword !== requiredPassword) ..401
Authorized_anySupplied(adminPassword, requiredPassword) ==
    adminPassword # Null
Authorized(adminPassword, requiredPassword) ==
    adminPassword # Null /\ adminPassword = requiredPassword

\* the 401 answers: 'Admin password is required', 'Invalid admin password'
Unauthorized(adminPassword, requiredPassword) ==
    RmFailure(401, "Unauthorized",
              IF adminPassword = Null THEN "Admin password is required"
              ELSE "Invalid admin password")

\* Object.keys(corsHeaders).forEach(key => res.setHeader(key, ...))
RmSetCors(q) == [q EXCEPT !.cors = TRUE]

\* if (!requiredPassword)
SecretMissing_never(e) ==
    FALSE
SecretMissing(e) ==
    e.adminPassword = Null

\* if (searchPattern.length < 2)
PatternTooShort_empty(searchPattern) ==
    Len(searchPattern) < 1
PatternTooShort(searchPattern) ==
    Len(searchPattern) < 2

\* if (matchingFiles.length > MAX_DELETE_PER_REQUEST)
OverCeiling_never(n) ==
    FALSE
OverCeiling(n) ==
    n > MAX_DELETE_PER_REQUEST

\* the remove handler from its entry to its first await (the first listing
\* query) or to its response
removeHandler(e, q0) ==
    LET q == RmSetCors(q0) IN
    IF q.method = "OPTIONS" THEN RmRespond(q, RmEnd(200))
    ELSE IF q.method # "POST" THEN RmRespond(q, RmFailure(405, "Method not allowed", Null))
    ELSE IF e.shop = Null \/ e.token = Null
        THEN RmRespond(q, RmFailure(500, "Server configuration error", Null))
    ELSE IF SecretMissing(e)
        THEN RmRespond(q, RmFailure(500, "Server configuration error",
                                    "Admin password not configured"))
    ELSE IF ~Authorized(q.body.adminPassword, e.adminPassword)
        THEN RmRespond(q, Unauthorized(q.body.adminPassword, e.adminPassword))
    ELSE IF q.body.searchPattern = NoPattern
        THEN RmRespond(q, RmFailure(400, "Missing searchPattern", Null))
    ELSE IF PatternTooShort(q.body.searchPattern)
        THEN RmRespond(q, RmFailure(400, "Search pattern too short", Null))
    ELSE IF ~isValidHeaderValue(e.token) THEN RmRespond(q, RmThrown(e.token))
    ELSE [q EXCEPT !.pc = "list", !.calls.list = 1]

\* the platform's answer to files(first: pageSize, after: cursor): a cursor
\* is the position of the last file of a page
ListPage(st, after) ==
    LET from == IF after = NoInt THEN 0 ELSE after
        to   == Min(from + pageSize, Len(st))
    IN  [kind |-> "page", edges |-> SubSeq(st, from + 1, to),
         hasNextPage |-> to < Len(st),
         endCursor |-> IF to > from THEN to ELSE NoInt]
ListFailures == {[kind |-> k, edges |-> <<>>, hasNextPage |-> FALSE, endCursor |-> NoInt]
                    : k \in {"errors", "network"}}
ListAnswers(st, after) == {ListPage(st, after)} \cup ListFailures

\* DeleteBatch slicing one file too far: the batches overlap
DeleteBatch_overlap(q) ==
    LET batch   == SubSeq(q.matchingFiles, q.i + 1,
                          Min(q.i + batchSize + 1, Len(q.matchingFiles)))
        fileIds == [k \in 1..Len(batch) |-> batch[k].id]
    IN  [q EXCEPT !.pc = "delete", !.calls.delete = Append(@, fileIds)]

\* one delete call for the batch that starts at q.i
DeleteBatch(q) ==
    LET batch   == SubSeq(q.matchingFiles, q.i + 1,
                          Min(q.i + batchSize, Len(q.matchingFiles)))
        fileIds == [k \in 1..Len(batch) |-> batch[k].id]
    IN  [q EXCEPT !.pc = "delete", !.calls.delete = Append(@, fileIds)]

\* after the listing loop: filter, the two early returns, the first batch
AfterEnumeration(q) ==
    LET matching == SelectSeq(q.allFiles, LAMBDA f : Matches(f, q.body.searchPattern))
    IN  IF Len(matching) = 0 THEN RmRespond(q, RmNothingFound)
        ELSE IF OverCeiling(Len(matching)) THEN RmRespond(q, RmTooMany(Len(matching)))
        ELSE DeleteBatch([q EXCEPT !.matchingFiles = matching, !.i = 0])

\* OnListed leaving the loop after the first page
OnListed_firstPageOnly(q, ans) ==
    IF ans.kind = "network" THEN RmRespond(q, RmInternalError)
    ELSE IF ans.kind = "errors"
        THEN RmRespond(q, RmFailure(500, "Failed to fetch files", Null))
    ELSE AfterEnumeration([q EXCEPT !.allFiles = @ \o ans.edges,
                                    !.cursor = ans.endCursor])

\* OnListed reading a failed listing query as an empty last page
OnListed_ignoreErrors(q, ans) ==
    IF ans.kind = "network" THEN RmRespond(q, RmInternalError)
    ELSE LET q1 == [q EXCEPT !.allFiles = @ \o ans.edges, !.cursor = ans.endCursor]
         IN  IF ans.hasNextPage THEN [q1 EXCEPT !.calls.list = @ + 1]
             ELSE AfterEnumeration(q1)

\* OnListed asking for the next page without the cursor of the page before
OnListed_noCursor(q, ans) ==
    IF ans.kind = "network" THEN RmRespond(q, RmInternalError)
    ELSE IF ans.kind = "errors"
        THEN RmRespond(q, RmFailure(500, "Failed to fetch files", Null))
    ELSE LET q1 == [q EXCEPT !.allFiles = @ \o ans.edges]
         IN  IF ans.hasNextPage THEN [q1 EXCEPT !.calls.list = @ + 1]
             ELSE AfterEnumeration(q1)

\* one turn of the listing loop after await fetch / await response.json()
OnListed(q, ans) ==
    IF ans.kind = "network" THEN RmRespond(q, RmInternalError)
    ELSE IF ans.kind = "errors"
        THEN RmRespond(q, RmFailure(500, "Failed to fetch files", Null))
    ELSE LET q1 == [q EXCEPT !.allFiles = @ \o ans.edges, !.cursor = ans.endCursor]
         IN  IF ans.hasNextPage THEN [q1 EXCEPT !.calls.list = @ + 1]
             ELSE AfterEnumeration(q1)

\* the elements of a sequence
Range(sq) == {sq[k] : k \in 1..Len(sq)}

\* the platform's answers to fileDelete(fileIds): the ids it deleted, listed
\* in deletedFileIds; or errors or userErrors and nothing deleted; or a
\* failure of the connection, before the platform acted or after it did
DeleteAnswers(fileIds) ==
    {[kind |-> "ok", deleted |-> SelectSeq(fileIds, LAMBDA id : id \in S), removed |-> S]
        : S \in SUBSET Range(fileIds)}
    \cup {[kind |-> k, deleted |-> <<>>, removed |-> {}] : k \in {"errors", "userErrors"}}
    \cup {[kind |-> "network", deleted |-> <<>>, removed |-> S]
            : S \in {{}, Range(fileIds)}}

\* RmFinal reporting every file of a batch without an error as deleted
RmFinal_assumed(q) ==
    [RmNoRes EXCEPT
        !.status = 200, !.body = TRUE, !.success = TRUE,
        !.message = "Successfully removed",
        !.filesRemoved = Len(q.deletedFiles),
        !.totalMatched = Len(q.matchingFiles),
        !.details = [k \in 1..Len(q.matchingFiles) |->
                        [id |-> q.matchingFiles[k].id,
                         alt |-> q.matchingFiles[k].alt,
                         deleted |-> \A e \in Range(q.errors) :
                                        e.batch # (k - 1) \div batchSize + 1]],
        !.errors = q.errors]

\* the final response (lines 262-273)
RmFinal(q) ==
    [RmNoRes EXCEPT
        !.status = 200, !.body = TRUE, !.success = TRUE,
        !.message = "Successfully removed",
        !.filesRemoved = Len(q.deletedFiles),
        !.totalMatched = Len(q.matchingFiles),
        !.details = [k \in 1..Len(q.matchingFiles) |->
                        [id |-> q.matchingFiles[k].id,
                         alt |-> q.matchingFiles[k].alt,
                         deleted |-> q.matchingFiles[k].id \in Range(q.deletedFiles)]],
        !.errors = q.errors]

\* OnDeleted giving the request up at the first batch that fails
OnDeleted_abortOnError(q, ans) ==
    IF ans.kind # "ok" THEN RmRespond(q, RmInternalError)
    ELSE LET q1 == [q EXCEPT !.deletedFiles = @ \o ans.deleted]
         IN  IF q.i + batchSize < Len(q.matchingFiles) THEN [q1 EXCEPT !.pc = "sleep"]
             ELSE RmRespond(q1, RmFinal(q1))

\* one turn of the delete loop after await fetch / await deleteResponse.json()
OnDeleted(q, ans) ==
    LET q1 == IF ans.kind = "ok"
                 THEN [q EXCEPT !.deletedFiles = @ \o ans.deleted]
                 ELSE [q EXCEPT !.errors =
                         Append(@, [batch |-> q.i \div batchSize + 1, error |-> ans.kind])]
    IN  IF q.i + batchSize < Len(q.matchingFiles) THEN [q1 EXCEPT !.pc = "sleep"]
        ELSE RmRespond(q1, RmFinal(q1))


\* --------------------------------------------------------------- actions
Shop == "shop.myshopify.com"
Token == "shpat_token"
Envs == {[shop |-> Shop, token |-> Token, adminPassword |-> "pw"],
         [shop |-> Null, token |-> Token, adminPassword |-> "pw"],
         [shop |-> Shop, token |-> Null, adminPassword |-> "pw"],
         [shop |-> Shop, token |-> Token, adminPassword |-> Null]}

vars == <<variant, env, now, rateLimitMap, admit, req, store, rm, cleared, admitted>>

Init ==
    /\ variant \in Variants
    /\ env \in Envs
    /\ now = 0
    /\ rateLimitMap = [i \in Identities |-> NoWindow]
    /\ admit = NoAdmit
    /\ req = [r \in Reqs |-> FreeReq]
    /\ store = <<>>
    /\ rm = FreeRm
    /\ cleared = NoneCleared
    /\ admitted = NoneAdmitted

\* the history of admissions after one more evaluation of the limiter for
\* identity ip at time t, whose window was w before the call
Counted(h, w, ip, t, allowed) ==
    [h EXCEPT ![ip] = (IF WindowElapsed(w, t) THEN 0 ELSE @)
                      + (IF allowed THEN 1 ELSE 0)]

\* a response, once returned, has left the process: its slot is free again
Sent(rq) == [r \in Reqs |-> IF rq[r].pc = "done" THEN FreeReq ELSE rq[r]]

\* requests arrive up to the horizon MaxTime of the clock, and the model
\* enumerates at most MaxOver calls beyond the capacity of a window
UnderCap(ip) ==
    \/ WindowElapsed(rateLimitMap[ip], now)
    \/ rateLimitMap[ip].count < RATE_LIMIT + MaxOver

\* a request arrives at slot r and runs to its first await or to its response
Receive(r, m, ip, b) ==
    /\ req[r].pc \in {"free", "done"}
    /\ now <= MaxTime
    /\ m = "POST" => UnderCap(ip)
    /\ LET out == handler(variant, env, rateLimitMap, now,
                          [FreeReq EXCEPT !.method = m, !.ip = ip, !.body = b])
       IN  /\ rateLimitMap' = out.map
           /\ admit' = IF out.admit = NoAdmit THEN NoAdmit
                       ELSE [out.admit EXCEPT !.slot = r]
           /\ req' = [Sent(req) EXCEPT ![r] = out.req]
           /\ admitted' = IF out.admit = NoAdmit THEN admitted
                           ELSE Counted(admitted, rateLimitMap[ip], ip, now, out.admit.allowed)
    /\ UNCHANGED <<variant, env, now, store, rm, cleared>>

StageReply(r, ans) ==
    /\ req[r].pc = "stage"
    /\ req' = [Sent(req) EXCEPT ![r] = OnStaged(variant, req[r], r, ans)]
    /\ admit' = NoAdmit
    /\ UNCHANGED <<variant, env, now, rateLimitMap, store, rm, cleared, admitted>>

PutReply(r, ans) ==
    /\ req[r].pc = "put"
    /\ req' = [Sent(req) EXCEPT ![r] = OnTransferred(variant, req[r], ans)]
    /\ admit' = NoAdmit
    /\ UNCHANGED <<variant, env, now, rateLimitMap, store, rm, cleared, admitted>>

CreateReply(r, ans) ==
    /\ req[r].pc = "create"
    /\ req' = [Sent(req) EXCEPT ![r] = OnCreated(variant, req[r], ans, now)]
    /\ admit' = NoAdmit
    /\ UNCHANGED <<variant, env, now, rateLimitMap, store, rm, cleared, admitted>>

StatusReply(r, ans) ==
    /\ req[r].pc = "pollFetch"
    /\ req' = [Sent(req) EXCEPT ![r] = OnStatus(req[r], ans, now)]
    /\ admit' = NoAdmit
    /\ UNCHANGED <<variant, env, now, rateLimitMap, store, rm, cleared, admitted>>

\* the setTimeout of the polling loop fires: the loop tests the clock again
PollWake(r) ==
    /\ req[r].pc = "pollSleep"
    /\ now >= req[r].wakeAt
    /\ req' = [Sent(req) EXCEPT ![r] = PollLoop(req[r], now)]
    /\ admit' = NoAdmit
    /\ UNCHANGED <<variant, env, now, rateLimitMap, store, rm, cleared, admitted>>

RecheckReply(r, ans) ==
    /\ req[r].pc = "recheck"
    /\ req' = [Sent(req) EXCEPT ![r] = OnRecheck(req[r], ans)]
    /\ admit' = NoAdmit
    /\ UNCHANGED <<variant, env, now, rateLimitMap, store, rm, cleared, admitted>>

\* a handler sleeps on a timer that has not fired yet
Sleeping == \E r \in Reqs : req[r].pc = "pollSleep" /\ now < req[r].wakeAt

Tick ==
    /\ now < MaxTime \/ Sleeping
    /\ now' = now + 1
    /\ req' = Sent(req)
    /\ admit' = NoAdmit
    /\ UNCHANGED <<variant, env, rateLimitMap, store, rm, cleared, admitted>>

\* setInterval(cleanup, 5 minutes)
Sweep ==
    /\ rateLimitMap' = SweepMap(rateLimitMap, now)
    /\ rateLimitMap' # rateLimitMap
    /\ req' = Sent(req)
    /\ admit' = NoAdmit
    /\ admitted' = [i \in Identities |->
                        IF rateLimitMap'[i] = NoWindow THEN 0 ELSE admitted[i]]
    /\ UNCHANGED <<variant, env, now, store, rm, cleared>>

\* the requests a client sends: a POST with any body, or another method
ValidBody == Body(TRUE, ImgOne, Null)
Inputs ==
    {<<"POST", b>> : b \in Bodies}
    \cup {<<m, b>> : m \in {"OPTIONS", "GET"}, b \in {NoBody, ValidBody}}

\* the steps of the upload request in slot r, sent by identity ip
UploadStep(r, ip) ==
    \/ \E in \in Inputs : Receive(r, in[1], ip, in[2])
    \/ \E ans \in StageAnswers : StageReply(r, ans)
    \/ \E ans \in PutAnswers : PutReply(r, ans)
    \/ \E ans \in CreateAnswers(r) : CreateReply(r, ans)
    \/ \E ans \in StatusAnswers : StatusReply(r, ans)
    \/ PollWake(r)
    \/ \E ans \in StatusAnswers : RecheckReply(r, ans)

\* one upload request at a time, from one identity
Next ==
    \/ UploadStep("r1", "ipA")
    \/ Tick
    \/ Sweep

Spec == Init /\ [][Next]_vars


\* the polling loop under the scheduling the runtime gives it: every status
\* query returns, every timer fires, and the clock advances
FairSpec ==
    /\ Spec
    /\ WF_vars(Tick)
    /\ WF_vars(\E ans \in StatusAnswers : StatusReply("r1", ans))
    /\ WF_vars(PollWake("r1"))

\* two upload requests in flight at once, interleaved at their awaits; the
\* deployment is configured and the callers send well-formed bodies
ConcurrentInputs == {ValidBody, Body(FALSE, NoImage, "gid://1")}
\* the answers enumerated while two requests overlap: each call gets through
\* or fails, the created file is ready at once or still being processed
ConcurrentCreateAnswers(r) ==
    {ans \in CreateAnswers(r) :
        \/ ans.kind = "network"
        \/ ans.file.typename = "GenericFile" /\ ans.file.url = Url
        \/ ans.file.typename = "MediaImage" /\ ans.file.status = "PROCESSING"}
ConcurrentStatusAnswers ==
    {ans \in StatusAnswers :
        \/ ans.kind = "network"
        \/ ans.status = "PROCESSING"
        \/ ans.status = "READY" /\ ans.url = Url}
ConcurrentStep(r, ip) ==
    \/ \E b \in ConcurrentInputs : Receive(r, "POST", ip, b)
    \/ \E ans \in {"network", "ok"} : StageReply(r, ans)
    \/ \E ans \in {"notOk", "ok"} : PutReply(r, ans)
    \/ \E ans \in ConcurrentCreateAnswers(r) : CreateReply(r, ans)
    \/ \E ans \in ConcurrentStatusAnswers : StatusReply(r, ans)
    \/ PollWake(r)
    \/ \E ans \in ConcurrentStatusAnswers : RecheckReply(r, ans)

InitConcurrent ==
    /\ Init
    /\ env = [shop |-> Shop, token |-> Token, adminPassword |-> "pw"]

NextConcurrent ==
    \/ ConcurrentStep("r1", "ipA")
    \/ ConcurrentStep("r2", "ipA")
    \/ Tick
    \/ Sweep

SpecConcurrent == InitConcurrent /\ [][NextConcurrent]_vars

\* one request at a time, sent by either of two identities
NextTwoCallers ==
    \/ ConcurrentStep("r1", "ipA")
    \/ ConcurrentStep("r1", "ipB")
    \/ Tick
    \/ Sweep

SpecTwoCallers == InitConcurrent /\ [][NextTwoCallers]_vars

\* ------------------------------------------------------ remover's actions
\* the request has ended in a success that reports every matched file deleted
RanClean(q) ==
    /\ q.pc = "done"
    /\ q.res.success
    /\ \A k \in 1..Len(q.res.details) : q.res.details[k].deleted

\* a remove request arrives and runs to its first await or to its response
RmReceive(m, b) ==
    /\ rm.pc \in {"free", "done"}
    /\ rm' = removeHandler(env, [FreeRm EXCEPT !.method = m, !.body = b])
    /\ cleared' = IF RanClean(rm)
                      THEN [pattern |-> rm.body.searchPattern,
                            any |-> rm.res.filesRemoved > 0]
                      ELSE NoneCleared
    /\ UNCHANGED <<variant, env, now, rateLimitMap, admit, req, store, admitted>>

\* the platform answers the listing query
ListReply(ans) ==
    /\ rm.pc = "list"
    /\ rm' = OnListed(rm, ans)
    /\ UNCHANGED <<variant, env, now, rateLimitMap, admit, req, store, cleared, admitted>>

\* the platform answers the delete call, having deleted ans.removed
DeleteReply(ans) ==
    /\ rm.pc = "delete"
    /\ store' = SelectSeq(store, LAMBDA f : f.id \notin ans.removed)
    /\ rm' = OnDeleted(rm, ans)
    /\ UNCHANGED <<variant, env, now, rateLimitMap, admit, req, cleared, admitted>>

\* the 500 ms pause between two batches is over
BatchWake ==
    /\ rm.pc = "sleep"
    /\ rm' = DeleteBatch([rm EXCEPT !.i = @ + batchSize])
    /\ UNCHANGED <<variant, env, now, rateLimitMap, admit, req, store, cleared, admitted>>

\* the id list of the delete call in flight
InFlight ==
    IF rm.calls.delete = <<>> THEN <<>>
    ELSE rm.calls.delete[Len(rm.calls.delete)]

RmInputs ==
    {<<"POST", b>> : b \in RmBodies}
    \cup {<<m, NoRmBody>> : m \in {"OPTIONS", "GET"}}

\* one remove request at a time against a platform that holds any files
InitRemove ==
    /\ variant = "poll"
    /\ env \in Envs
    /\ now = 0
    /\ rateLimitMap = [i \in Identities |-> NoWindow]
    /\ admit = NoAdmit
    /\ req = [r \in Reqs |-> FreeReq]
    /\ store \in Stores
    /\ rm = FreeRm
    /\ cleared = NoneCleared
    /\ admitted = NoneAdmitted

NextRemove ==
    \/ \E in \in RmInputs : RmReceive(in[1], in[2])
    \/ \E ans \in ListAnswers(store, rm.cursor) : ListReply(ans)
    \/ \E ans \in DeleteAnswers(InFlight) : DeleteReply(ans)
    \/ BatchWake

SpecRemove == InitRemove /\ [][NextRemove]_vars

\* a deployment that serves one request at a time, to either endpoint: the
\* two handlers share process.env and nothing else
UploadIdle ==
    /\ now = 0
    /\ rateLimitMap = [i \in Identities |-> NoWindow]
    /\ admit = NoAdmit
    /\ req = [r \in Reqs |-> FreeReq]
RemoveIdle == rm = FreeRm /\ store = <<>>

InitEither == Init \/ InitRemove

NextEither ==
    \/ RemoveIdle /\ UploadStep("r1", "ipA")
    \/ RemoveIdle /\ Tick
    \/ RemoveIdle /\ Sweep
    \/ UploadIdle /\ \E in \in RmInputs : RmReceive(in[1], in[2])
    \/ UploadIdle /\ \E ans \in ListAnswers(store, rm.cursor) : ListReply(ans)
    \/ UploadIdle /\ \E ans \in DeleteAnswers(InFlight) : DeleteReply(ans)
    \/ UploadIdle /\ BatchWake

SpecEither == InitEither /\ [][NextEither]_vars

\* the filenames callers send with an upload
Filenames == {LabelXY, LabelCP}
\* fileCreateVariables = { files: [{ alt: filename, ... }] }: the label the
\* platform registers the file with
fileCreateAlt(filename) == filename
\* the id the platform gives a new file
FreshId(st) ==
    CHOOSE n \in 1..(Len(st) + 1) :
        /\ \A k \in 1..Len(st) : st[k].id # n
        /\ \A m \in 1..(n - 1) : \E k \in 1..Len(st) : st[k].id = m

\* an upload of a file named filename gets as far as fileCreate, which the
\* platform accepts: the platform holds one file more (no remove running)
Created(filename) ==
    /\ rm.pc \in {"free", "done"}
    /\ Len(store) <= batchSize
    /\ store' = Append(store, [id |-> FreshId(store), alt |-> fileCreateAlt(filename)])
    /\ UNCHANGED <<variant, env, now, rateLimitMap, admit, req, rm, cleared, admitted>>

\* a shop that starts without files: uploads create files, and the operator
\* removes with the pattern of the documentation, "CP"
PatternCP == <<"C", "P">>
InitLifecycle ==
    /\ variant \in Variants
    /\ env = [shop |-> Shop, token |-> Token, adminPassword |-> "pw"]
    /\ now = 0
    /\ rateLimitMap = [i \in Identities |-> NoWindow]
    /\ admit = NoAdmit
    /\ req = [r \in Reqs |-> FreeReq]
    /\ store = <<>>
    /\ rm = FreeRm
    /\ cleared = NoneCleared
    /\ admitted = NoneAdmitted

NextLifecycle ==
    \/ \E filename \in Filenames : Created(filename)
    \/ RmReceive("POST", RmBody(PatternCP, "pw"))
    \/ \E ans \in ListAnswers(store, rm.cursor) : ListReply(ans)
    \/ \E ans \in DeleteAnswers(InFlight) : DeleteReply(ans)
    \/ BatchWake

SpecLifecycle == InitLifecycle /\ [][NextLifecycle]_vars

\* the same deployment, the admin token being any string an operator can set
\* the listing loop under the scheduling the runtime gives it: every listing
\* query returns; the platform holds any number of files of one label
OneLabel == {st \in Stores : \A k \in 1..Len(st) : st[k].alt = LabelXY}
InitListing == InitRemove /\ store \in OneLabel
FairListing ==
    /\ InitListing /\ [][NextRemove]_vars
    /\ WF_vars(\E ans \in ListAnswers(store, rm.cursor) : ListReply(ans))

\* the remover against a platform whose deletedFileIds are not taken on trust:
\* besides the answers of DeleteAnswers, a list that names an id twice and a
\* list that names an id the request did not send
ForeignId == 0
LooseDeleteAnswers(fileIds) ==
    DeleteAnswers(fileIds)
    \cup (IF fileIds = <<>> THEN {}
          ELSE {[kind |-> "ok", deleted |-> fileIds \o <<fileIds[1]>>,
                 removed |-> Range(fileIds)],
                [kind |-> "ok", deleted |-> <<ForeignId>> \o fileIds,
                 removed |-> Range(fileIds)]})
NextLoose ==
    \/ \E in \in RmInputs : RmReceive(in[1], in[2])
    \/ \E ans \in ListAnswers(store, rm.cursor) : ListReply(ans)
    \/ \E ans \in LooseDeleteAnswers(InFlight) : DeleteReply(ans)
    \/ BatchWake
SpecLoose == InitListing /\ [][NextLoose]_vars

\* requests to either endpoint, the platform holding up to one batch and one
\* more of files of one label: what a request's method decides does not
\* depend on the files
SameFiles ==
    {st \in Stores : Len(st) <= batchSize + 1 /\ \A k \in 1..Len(st) : st[k].alt = LabelXY}
InitDispatch == InitEither /\ store \in SameFiles
SpecDispatch == InitDispatch /\ [][NextEither]_vars

SecretEnvs == Envs \cup {[shop |-> Shop, token |-> BadToken, adminPassword |-> "pw"]}
FewFiles == {st \in Stores : Len(st) <= batchSize + 1}

InitSecrets ==
    /\ variant \in Variants
    /\ env \in SecretEnvs
    /\ now = 0
    /\ rateLimitMap = [i \in Identities |-> NoWindow]
    /\ admit = NoAdmit
    /\ req = [r \in Reqs |-> FreeReq]
    /\ store \in FewFiles
    /\ variant # "poll" => store = <<>>
    /\ rm = FreeRm
    /\ cleared = NoneCleared
    /\ admitted = NoneAdmitted

SpecSecrets == InitSecrets /\ [][NextEither]_vars


\* ----------------------------------------------------------- properties
Done(r) == req[r].pc = "done"
Polling(r) == req[r].pc \in {"pollFetch", "pollSleep"}

\* the request the limiter evaluated in the step just taken
Admitted == admit.slot # Null
WithinWindow ==
    /\ admit.before.windowStart # NoInt
    /\ now - admit.before.windowStart < RATE_WINDOW

SyntaxOk(b) == b.filename /\ StartsWithDataImage(b.image) /\ MatchesDataUri(b.image)
BadSize(b) ==
    /\ SyntaxOk(b)
    /\ \/ BufferLength(b.image.payload) = 0
       \/ BufferLength(b.image.payload) > SizeCeiling
Configured == env.shop # Null /\ env.token # Null
ReachedValidation(r) ==
    /\ req[r].pc # "free"
    /\ req[r].method = "POST"
    /\ Configured
    /\ req[r].res.status # 429

\* ------------------------------------------------- remover's properties
RmDone == rm.pc = "done"
RmPost == rm.pc # "free" /\ rm.method = "POST"

\* the supplied secret is missing or differs from the configured one
BadSecret == rm.body.adminPassword = Null \/ rm.body.adminPassword # env.adminPassword

\* C2: a remove call whose supplied secret is missing or differs from the
\* configured secret is answered at once, no listing query and no delete call
\* having been issued for it; the answer is 401 "Unauthorized" whatever the
\* search pattern (on a server whose shop, token and secret are configured).
C2_UnauthorizedBeforeEnumeration ==
    (RmPost /\ BadSecret)
        => /\ RmDone
           /\ rm.calls = NoRmCalls
           /\ (Configured /\ env.adminPassword # Null)
                => /\ rm.res.status = 401
                   /\ ~rm.res.success
                   /\ rm.res.error = "Unauthorized"

C2_Witness ==
    /\ RmDone /\ rm.method = "POST"
    /\ rm.body.adminPassword = "wrong"
    /\ Len(rm.body.searchPattern) >= 2
    /\ \E k \in 1..Len(store) : Matches(store[k], rm.body.searchPattern)
    /\ rm.res.status = 401
    /\ rm.calls = NoRmCalls

\* the number of files of the platform that match the pattern
MatchCount(pat) == Cardinality({k \in 1..Len(store) : Matches(store[k], pat)})

\* an authorized request with a valid pattern whose enumeration has ended
\* without a failure of the listing
Enumerated ==
    /\ RmPost /\ Configured
    /\ ~BadSecret
    /\ Len(rm.body.searchPattern) >= 2
    /\ rm.pc # "list"
    /\ rm.res.status # 500

\* C3: when more than MAX_DELETE_PER_REQUEST files match the pattern, the
\* request issues no delete call and is answered 400 "Too many files" with
\* totalMatched = the number of matching files.
C3_TooManyDeletesNothing ==
    (Enumerated /\ MatchCount(rm.body.searchPattern) > MAX_DELETE_PER_REQUEST)
        => /\ RmDone
           /\ rm.calls.delete = <<>>
           /\ rm.res.status = 400
           /\ ~rm.res.success
           /\ rm.res.error = "Too many files"
           /\ rm.res.totalMatched = MatchCount(rm.body.searchPattern)

C3_Witness ==
    /\ RmDone
    /\ rm.res.error = "Too many files"
    /\ rm.res.totalMatched = MAX_DELETE_PER_REQUEST + 1
    /\ rm.calls.list >= 2
    /\ Len(store) > MatchCount(rm.body.searchPattern)

\* the label has the pattern in it, letter case apart
SameLetter(a, b) == Lower(a) = Lower(b)
LabelHas(alt, pat) ==
    \E k \in 0..(Len(alt) - Len(pat)) :
        \A j \in 1..Len(pat) : SameLetter(alt[k + j], pat[j])

\* the files of the platform whose label has the pattern in it
Matching(pat) == {k \in 1..Len(store) : LabelHas(store[k].alt, pat)}

\* an authorized request with a valid pattern, in flight or answered
Authorised ==
    /\ RmPost /\ Configured
    /\ ~BadSecret
    /\ Len(rm.body.searchPattern) >= 2

\* C11: a remove with the pattern whose matches the previous remove deleted
\* one and all (a success, every matched file reported deleted), the store
\* not having changed since, issues no delete call and, its listing having
\* succeeded, is answered 200 success with filesRemoved = 0.
C11_RerunRemovesNothing ==
    (Authorised /\ cleared.pattern = rm.body.searchPattern)
        => /\ rm.pc \in {"list", "done"}
           /\ rm.calls.delete = <<>>
           /\ (RmDone /\ rm.res.status # 500)
                => /\ rm.res.status = 200
                   /\ rm.res.success
                   /\ rm.res.filesRemoved = 0

C11_Witness ==
    /\ Authorised /\ RmDone
    /\ cleared = [pattern |-> rm.body.searchPattern, any |-> TRUE]
    /\ rm.res.status = 200
    /\ rm.res.filesRemoved = 0
    /\ rm.calls.list >= 2

\* C12: when the listing of an authorized remove ends and no file of the
\* platform matches the pattern, the request is answered 200 success with
\* filesRemoved = 0 and has issued no delete call.
C12_NoMatchNoDelete ==
    [][(/\ rm.pc = "list"
        /\ rm'.pc # "list"
        /\ Matching(rm.body.searchPattern) = {}
        /\ rm'.res.status # 500)
            => /\ rm'.pc = "done"
               /\ rm'.res.status = 200
               /\ rm'.res.success
               /\ rm'.res.filesRemoved = 0
               /\ rm'.calls.delete = <<>>]_vars

C12_Witness ==
    /\ Authorised /\ RmDone
    /\ Matching(rm.body.searchPattern) = {}
    /\ Len(store) >= 3
    /\ cleared = NoneCleared
    /\ admitted = NoneAdmitted
    /\ rm.res.status = 200
    /\ rm.res.filesRemoved = 0
    /\ rm.calls = [list |-> 2, delete |-> <<>>]

\* the per-batch errors a request has collected, or reports in its response
ErrorsOf(q) == IF q.pc = "done" THEN q.res.errors ELSE q.errors

\* the number of batches that n matched files make
Batches(n) == (n + batchSize - 1) \div batchSize

\* C13: a delete batch that fails (errors, userErrors or a network exception)
\* is recorded with its number in the errors list and does not end the
\* removal: the request goes on to its next batch, and after the last batch
\* it answers 200 with totalMatched and filesRemoved of the whole operation,
\* one delete call having been issued per batch.
C13_FailedBatchNotFatal ==
    [][/\ \A ans \in DeleteAnswers(InFlight) :
            DeleteReply(ans) =>
                /\ ErrorsOf(rm') =
                      IF ans.kind = "ok" THEN rm.errors
                      ELSE Append(rm.errors, [batch |-> Len(rm.calls.delete),
                                              error |-> ans.kind])
                /\ IF Len(rm.calls.delete) < Batches(Len(rm.matchingFiles))
                     THEN rm'.pc = "sleep"
                     ELSE /\ rm'.pc = "done"
                          /\ rm'.res.status = 200
                          /\ rm'.res.success
                          /\ rm'.res.totalMatched = Len(rm.matchingFiles)
                          /\ rm'.res.filesRemoved = Len(rm.deletedFiles) + Len(ans.deleted)
                          /\ Len(rm'.calls.delete) = Batches(Len(rm.matchingFiles))
       /\ (rm.pc = "sleep" /\ rm' # rm)
            => /\ rm'.pc = "delete"
               /\ Len(rm'.calls.delete) = Len(rm.calls.delete) + 1
               /\ rm'.errors = rm.errors]_vars

C13_Witness ==
    /\ RmDone
    /\ rm.res.status = 200
    /\ Len(rm.calls.delete) = 2
    /\ rm.res.errors = <<[batch |-> 1, error |-> "network"]>>
    /\ rm.res.totalMatched = 3
    /\ rm.res.filesRemoved = 1

C15_RecheckContract ==
    \A r \in Reqs :
        (Done(r) /\ ReachedValidation(r) /\ Truthy(req[r].body.fileId))
            => /\ req[r].calls = [NoCalls EXCEPT !.status = 1]
               /\ req[r].res.status = 200
                    => /\ req[r].res.success
                       /\ Truthy(req[r].res.url)
                       /\ req[r].res.fileId = req[r].body.fileId
               /\ req[r].res.status = 202
                    => /\ req[r].res.success
                       /\ req[r].res.ready = "false"
                       /\ req[r].res.fileStatus = "PROCESSING"
                       /\ req[r].res.fileId = req[r].body.fileId

\* C16: when no removal secret is configured, every remove POST, whatever
\* secret and pattern it supplies, is answered 500 "Server configuration
\* error" at once, no listing query and no delete call having been issued.
C16_NoSecretDisablesRemoval ==
    (RmPost /\ env.adminPassword = Null)
        => /\ RmDone
           /\ rm.res.status = 500
           /\ ~rm.res.success
           /\ rm.res.error = "Server configuration error"
           /\ rm.calls = NoRmCalls

C16_Witness ==
    /\ RmDone /\ rm.method = "POST"
    /\ Configured /\ env.adminPassword = Null
    /\ rm.body.adminPassword = "pw"
    /\ Len(rm.body.searchPattern) >= 2
    /\ \E k \in 1..Len(store) : Matches(store[k], rm.body.searchPattern)
    /\ rm.res.status = 500
    /\ rm.res.message = "Admin password not configured"
    /\ rm.calls = NoRmCalls

\* C17: an authorized remove whose search pattern is missing or shorter
\* than 2 characters is answered 400 ("Missing searchPattern" or "Search
\* pattern too short"), no listing query and no delete call having been
\* issued.
C17_ShortPatternRejected ==
    (RmPost /\ Configured /\ ~BadSecret /\ Len(rm.body.searchPattern) < 2)
        => /\ RmDone
           /\ rm.res.status = 400
           /\ ~rm.res.success
           /\ rm.res.error = IF rm.body.searchPattern = NoPattern
                               THEN "Missing searchPattern"
                               ELSE "Search pattern too short"
           /\ rm.calls = NoRmCalls

C17_Witness ==
    /\ RmDone /\ rm.method = "POST"
    /\ Configured /\ ~BadSecret
    /\ Len(rm.body.searchPattern) = 1
    /\ \E k \in 1..Len(store) : LabelHas(store[k].alt, rm.body.searchPattern)
    /\ rm.res.status = 400
    /\ rm.res.error = "Search pattern too short"
    /\ rm.calls = NoRmCalls

\* C18: when the shop or the admin token is not configured, every POST to
\* upload (that the limiter lets through) and every POST to remove is
\* answered 500 "Server configuration error" at once, whatever its body, no
\* call to the platform having been issued.
C18_MisconfiguredRejectsAll ==
    ~Configured
        => /\ \A r \in Reqs :
                (req[r].pc # "free" /\ req[r].method = "POST" /\ req[r].res.status # 429)
                    => /\ Done(r)
                       /\ req[r].res = ConfigError
                       /\ req[r].calls = NoCalls
           /\ RmPost
                => /\ RmDone
                   /\ rm.res.status = 500
                   /\ ~rm.res.success
                   /\ rm.res.error = "Server configuration error"
                   /\ rm.calls = NoRmCalls

C18_Witness ==
    /\ env.shop # Null /\ env.token = Null
    /\ RmDone /\ rm.method = "POST"
    /\ rm.body.adminPassword = env.adminPassword
    /\ Len(rm.body.searchPattern) >= 2
    /\ \E k \in 1..Len(store) : LabelHas(store[k].alt, rm.body.searchPattern)
    /\ rm.res.status = 500
    /\ rm.calls = NoRmCalls

\* C19: no response of upload or remove contains the configured admin token
\* or the configured removal secret.
C19_NoSecretInResponse ==
    LET secrets == {env.token, env.adminPassword} \ {Null}
    IN  /\ \A r \in Reqs :
            {req[r].res.error, req[r].res.details, req[r].res.quotes} \cap secrets = {}
        /\ {rm.res.error, rm.res.message, rm.res.quotes} \cap secrets = {}

\* a label that starts with "CP_"
HasPrefixCP(alt) == Len(alt) > 3 /\ SubSeq(alt, 1, 3) = <<"C", "P", "_">>

\* C20: every file an upload has created carries a label that is the
\* caller's filename prefixed with "CP_", so an authorized remove with the
\* pattern "CP" matches every file uploads have created: it finds nothing
\* only when the shop holds no file.
C20_UploadsCarryPrefix ==
    /\ \A k \in 1..Len(store) :
          /\ HasPrefixCP(store[k].alt)
          /\ SubSeq(store[k].alt, 4, Len(store[k].alt)) \in Filenames
    /\ (RmDone /\ Authorised /\ rm.res = RmNothingFound) => store = <<>>

\* C21: on both endpoints an OPTIONS request is answered 200 without a body
\* and any other method than POST 405 "Method not allowed", whatever the
\* configuration: the step changes no rate window, evaluates no limiter,
\* sets no quota header and issues no outbound call; and every response,
\* these and every error included, carries the CORS headers.
C21_PreflightAndWrongMethod ==
    [][/\ \A r \in Reqs :
            (req'[r].pc = "done" /\ req'[r].method # "POST")
                => /\ req'[r].res = IF req'[r].method = "OPTIONS" THEN EndRes(200)
                                    ELSE Failure(405, "Method not allowed", Null)
                   /\ req'[r].calls = NoCalls
                   /\ req'[r].hdr = NoHdr
                   /\ rateLimitMap' = rateLimitMap
                   /\ admit' = NoAdmit
       /\ (rm'.pc = "done" /\ rm'.method # "POST")
            => /\ rm'.res = IF rm'.method = "OPTIONS" THEN RmEnd(200)
                            ELSE RmFailure(405, "Method not allowed", Null)
               /\ rm'.calls = NoRmCalls
       /\ \A r \in Reqs : req'[r].pc = "done" => req'[r].cors
       /\ rm'.pc = "done" => rm'.cors]_vars

C21_Witness ==
    /\ ~Configured
    /\ Done("r1") /\ req["r1"].method = "OPTIONS"
    /\ req["r1"].res.status = 200 /\ ~req["r1"].res.body
    /\ req["r1"].cors
    /\ rateLimitMap["ipA"].count = RATE_LIMIT

\* a request that runs the upload pipeline (not a status recheck)
Uploading(r) == req[r].pc \in {"stage", "put", "create", "pollFetch", "pollSleep"}

\* C22: within one upload the steps are strictly sequential: the transfer is
\* issued only when stage has returned a staged target, finalize only when
\* the transfer has succeeded, a status poll only once finalize has returned
\* a created file; and a failure at a step is answered with that step's
\* failure kind, no call of a later step being issued.
C22_StepsInOrder ==
    [][\A r \in Reqs :
        /\ \A ans \in StageAnswers :
              StageReply(r, ans) =>
                  IF ans = "ok"
                    THEN /\ req'[r].pc = "put"
                         /\ req'[r].stagedTarget = TargetOf(r)
                    ELSE /\ req'[r].pc = "done"
                         /\ req'[r].res.error = "Failed to create staged upload"
                         /\ req'[r].calls = req[r].calls
        /\ \A ans \in PutAnswers :
              PutReply(r, ans) =>
                  IF ans = "ok"
                    THEN req'[r].pc = "create"
                    ELSE /\ req'[r].pc = "done"
                         /\ req'[r].res.error = "Failed to upload file to storage"
                         /\ req'[r].calls = req[r].calls
        /\ \A ans \in CreateAnswers(r) :
              (CreateReply(r, ans) /\ ans.kind # "file") =>
                  /\ req'[r].pc = "done"
                  /\ req'[r].res.error = "Failed to create file in Shopify"
                  /\ req'[r].calls = req[r].calls
        /\ Uploading(r) =>
              /\ req'[r].calls.stage = req[r].calls.stage \/ req'[r].pc = "stage"
              /\ req'[r].calls.put > req[r].calls.put
                    => req[r].pc = "stage" /\ req'[r].stagedTarget # Null
              /\ req'[r].calls.create > req[r].calls.create => req[r].pc = "put"
              /\ req'[r].calls.status > req[r].calls.status
                    => /\ req[r].pc \in {"create", "pollSleep"}
                       /\ req'[r].createdFile.id # Null]_vars

\* C23: no step is retried: one request issues the stage call, the transfer
\* and the finalize call at most once each (a staged target is used for one
\* transfer at most), and a failing answer at a step ends the request with
\* no further call.
C23_NoRetry ==
    [][\A r \in Reqs :
        /\ req'[r].calls.stage <= 1
        /\ req'[r].calls.put <= 1
        /\ req'[r].calls.create <= 1
        /\ \A ans \in StageAnswers \ {"ok"} :
              StageReply(r, ans) => req'[r].pc = "done" /\ req'[r].calls = req[r].calls
        /\ \A ans \in PutAnswers \ {"ok"} :
              PutReply(r, ans) => req'[r].pc = "done" /\ req'[r].calls = req[r].calls
        /\ \A ans \in CreateAnswers(r) :
              (CreateReply(r, ans) /\ ans.kind # "file")
                  => req'[r].pc = "done" /\ req'[r].calls = req[r].calls]_vars

C23_Witness ==
    /\ Done("r1")
    /\ req["r1"].res.error = "Failed to upload file to storage"
    /\ req["r1"].res.details = "network error during upload to staged target"
    /\ req["r1"].calls = [NoCalls EXCEPT !.stage = 1, !.put = 1]

\* some upload request is suspended at an await of its pipeline
InPipeline(r) == req[r].pc \in {"stage", "put", "create", "pollFetch", "pollSleep", "recheck"}

IsUpload(r) == req[r].pc # "free" /\ req[r].method = "POST" /\ req[r].body.fileId = Null

\* C25: whatever the interleaving of the concurrent upload requests, the
\* transfer and the fileCreate call of a request use the staged target its own
\* stage call returned, and its status queries and its response use the id
\* of the file its own fileCreate call returned.
C25_OwnTargetAndAsset ==
    \A r \in Reqs :
        IsUpload(r)
            => /\ req[r].stagedTarget \in {Null, TargetOf(r)}
               /\ req[r].createdFile.id \in {Null, AssetIdOf(r)}
               /\ req[r].used.putTo = IF req[r].calls.put > 0 THEN TargetOf(r) ELSE Null
               /\ req[r].used.createFrom = IF req[r].calls.create > 0 THEN TargetOf(r) ELSE Null
               /\ req[r].used.polled = IF req[r].calls.status > 0 THEN AssetIdOf(r) ELSE Null
               /\ req[r].res.fileId \in {Null, AssetIdOf(r)}

C25_Witness ==
    /\ IsUpload("r1") /\ IsUpload("r2")
    /\ req["r1"].pc = "pollFetch" /\ req["r1"].used.polled = "gid://1"
    /\ req["r1"].used.createFrom = "target1"
    /\ req["r2"].pc = "create" /\ req["r2"].used.putTo = "target2"
    /\ req["r2"].used.createFrom = "target2"

\* the status answers that report the node READY without a url
ReadyNoUrl == {ans \in StatusAnswers : ans.kind = "node" /\ ans.status = "READY" /\ ~Truthy(ans.url)}

\* C26: a status poll that reports the asset READY with no url ends the upload
\* at once: no further status poll is issued, and the answer is a failure
\* that is neither a success nor the timeout error.
C26_ReadyNoUrlFailsAtOnce ==
    [][\A r \in Reqs : \A ans \in ReadyNoUrl :
        StatusReply(r, ans)
            => /\ req'[r].pc = "done"
               /\ req'[r].calls = req[r].calls
               /\ ~req'[r].res.success
               /\ req'[r].res.status = 500
               /\ req'[r].res.error # "Image processing timeout"]_vars

\* the fileCreate answers that return a GenericFile whose url is present
GenericWithUrl(r) ==
    {ans \in CreateAnswers(r) :
        ans.kind = "file" /\ ans.file.typename = "GenericFile" /\ Truthy(ans.file.url)}

\* C27: when fileCreate returns a GenericFile whose url is present, the upload
\* is answered at once with 200, that url and the id of the file, without a
\* status query and without a 202.
C27_GenericFileSucceedsAtOnce ==
    [][\A r \in Reqs : \A ans \in GenericWithUrl(r) :
        CreateReply(r, ans)
            => /\ req'[r].pc = "done"
               /\ req'[r].res = Success(ans.file.url, ans.file.id)
               /\ req'[r].res.status = 200
               /\ req'[r].calls.status = 0]_vars

\* the upload in slot r has just been answered with the timeout error
TimedOut(r) ==
    /\ Done(r)
    /\ req[r].res.error = "Image processing timeout"
    /\ req[r].res.details = TimeoutMessage
    /\ req[r].res.fileId \in AssetIds

\* the status answers that report the node READY with a url
ReadyWithUrl == {ans \in StatusAnswers : ans.kind = "node" /\ ans.status = "READY" /\ Truthy(ans.url)}

\* C28: after an upload was answered with the timeout error and the id X of
\* the created file, a call of the same endpoint with body {fileId: X} that
\* the limiter admits issues a status query for X, and the query's answer
\* READY with a url is answered 200 with that url and X.
C28_TimeoutCanBeRechecked ==
    [][\A r \in Reqs :
        /\ ( /\ TimedOut(r)
             /\ req'[r].pc # "free" /\ req'[r].method = "POST"
             /\ req'[r].body.fileId = req[r].res.fileId
             /\ admit'.allowed )
                => /\ req'[r].pc = "recheck"
                   /\ req'[r].used.polled = req[r].res.fileId
        /\ \A ans \in ReadyWithUrl :
                RecheckReply(r, ans)
                    => /\ req'[r].pc = "done"
                       /\ req'[r].res = Success(ans.url, req[r].body.fileId)]_vars

\* the request of slot r as it arrived, with the quota headers it was given
Arrived(q) ==
    [SetCors([FreeReq EXCEPT !.method = q.method, !.ip = q.ip, !.body = q.body])
        EXCEPT !.hdr = q.hdr]

CountBefore == IF WindowElapsed(admit.before, now) THEN 0 ELSE admit.before.count

CallNow(map, ip) ==
    LET lim == checkRateLimit(map, ip, now)
    IN  [allowed |-> lim.allowed, remaining |-> lim.remaining, window |-> lim.map[ip]]

Malformed(b) ==
    /\ ~Truthy(b.fileId)
    /\ \/ ~b.filename
       \/ b.image = NoImage
       \/ ~(StartsWithDataImage(b.image) /\ MatchesDataUri(b.image))

\* C32: an upload whose filename or image data is missing, or whose image
\* data is not a base64 data URI of an image type, is answered 400 and makes
\* no outbound call.
C32_MalformedRejected ==
    \A r \in Reqs :
        (ReachedValidation(r) /\ Malformed(req[r].body))
            => /\ Done(r)
               /\ req[r].calls = NoCalls
               /\ req[r].res.status = 400
               /\ ~req[r].res.success

\* the listing query in flight asks for the page after the files fetched so far
CursorFollows(q) ==
    /\ q.allFiles = SubSeq(store, 1, Len(q.allFiles))
    /\ q.cursor = IF q.allFiles = <<>> THEN NoInt ELSE Len(q.allFiles)

\* C33: the listing loop asks for each page with the end cursor of the page
\* before it and goes on until the platform reports no further page; the loop
\* ends, and when it ends on a last page the files accumulated are the files
\* of the platform, each once, in the order of the listing.
C33_EnumerationComplete ==
    /\ [][/\ rm'.pc = "list"
                => /\ CursorFollows(rm')
                   /\ Len(rm'.allFiles) < Len(store) \/ store = <<>>
           /\ \A ans \in {ListPage(store, rm.cursor)} :
                ListReply(ans)
                    => /\ ans.hasNextPage
                            => /\ rm'.pc = "list"
                               /\ rm'.cursor = ans.endCursor
                               /\ rm'.calls.list = rm.calls.list + 1
                       /\ ~ans.hasNextPage
                            => /\ rm'.pc # "list"
                               /\ rm.allFiles \o ans.edges = store
                               /\ rm'.calls.list = (Len(store) + pageSize - 1) \div pageSize
                                    \/ store = <<>>]_vars
    /\ (rm.pc = "list") ~> (rm.pc # "list")

C33_Witness ==
    /\ rm.pc \in {"delete", "done"}
    /\ rm.calls.list = 3
    /\ Len(store) > 2 * pageSize
    /\ rm.res.status \in {0, 400}

\* C34: no delete call is issued before the last page of the listing has been
\* fetched, and a listing query that fails (platform errors or a network
\* failure) ends the request with a 500 failure, no delete call issued and
\* no file deleted.
C34_NoDeleteBeforeEnumeration ==
    [][/\ \A ans \in ListFailures :
            ListReply(ans)
                => /\ rm'.pc = "done"
                   /\ rm'.res.status = 500
                   /\ ~rm'.res.success
                   /\ rm'.calls.delete = <<>>
                   /\ store' = store
       /\ rm'.pc = "list" => rm'.calls.delete = <<>>
       /\ (rm.calls.delete = <<>> /\ rm'.calls.delete # <<>>)
            => /\ rm.pc = "list"
               /\ rm' = OnListed(rm, ListPage(store, rm.cursor))
               /\ ~ListPage(store, rm.cursor).hasNextPage
               /\ rm'.allFiles = store]_vars

C34_Witness ==
    /\ RmDone
    /\ rm.res.status = 500
    /\ rm.res.error = "Failed to fetch files"
    /\ rm.calls.list = 2
    /\ rm.calls.delete = <<>>
    /\ MatchCount(rm.body.searchPattern) \in 1..MAX_DELETE_PER_REQUEST

\* the ids a remove request has sent in its delete calls so far
SentIds(q) == UNION {Range(q.calls.delete[k]) : k \in 1..Len(q.calls.delete)}

\* the ids of the enumerated files whose label has the pattern in it
MatchedIds(q) ==
    {f.id : f \in {g \in Range(q.allFiles) : LabelHas(g.alt, q.body.searchPattern)}}

\* C35: every id a remove request sends in a delete call is the id of an
\* enumerated file whose label contains the pattern, letter case apart (a
\* file without a label never does); when the delete loop of the request has
\* ended the ids sent are exactly the ids of those files, and a request that
\* ends in a success without a delete call had no such file to delete.
C35_DeletesOnlyMatches ==
    [][/\ rm'.pc \in {"delete", "sleep"}
            => /\ SentIds(rm') \subseteq MatchedIds(rm')
               /\ \A f \in Range(rm'.allFiles) : f.alt = NoLabel => f.id \notin SentIds(rm')
       /\ (rm.pc = "delete" /\ rm'.pc = "done")
            => /\ SentIds(rm') = MatchedIds(rm)
               /\ SentIds(rm') # {}
       /\ (rm.pc = "list" /\ rm'.pc = "done" /\ rm'.res.status = 200)
            => /\ SentIds(rm') = {}
               /\ Matching(rm.body.searchPattern) = {}]_vars

C35_Witness ==
    /\ RmDone /\ rm.res.status = 200
    /\ rm.body.searchPattern = <<"c", "P">>
    /\ Len(rm.calls.delete) = 2
    /\ Cardinality(SentIds(rm)) = 3
    /\ rm.calls.list = 3

\* the ids of the k-th run of batchSize files of the matched files
BatchIds(q, k) ==
    LET from == (k - 1) * batchSize
        to   == Min(k * batchSize, Len(q.matchingFiles))
    IN  [j \in 1..(to - from) |-> q.matchingFiles[from + j].id]

\* C36: the delete calls partition the matched files in the order of the
\* enumeration: the k-th call carries the ids of the k-th run of batchSize
\* matched files, so every call carries between 1 and batchSize ids and every
\* matched id is sent once; for n matched files the request issues
\* ceil(n / batchSize) calls, one per batch.
C36_BatchesPartitionMatches ==
    [][/\ rm'.pc \in {"delete", "sleep"}
            => /\ \A k \in 1..Len(rm'.calls.delete) :
                    /\ rm'.calls.delete[k] = BatchIds(rm', k)
                    /\ Len(rm'.calls.delete[k]) \in 1..batchSize
               /\ Len(rm'.calls.delete) = rm'.i \div batchSize + 1
               /\ \A j, k \in 1..Len(rm'.matchingFiles) :
                    rm'.matchingFiles[j].id = rm'.matchingFiles[k].id => j = k
       /\ (rm.pc = "delete" /\ rm'.pc = "done")
            => /\ rm'.calls.delete = rm.calls.delete
               /\ Len(rm.calls.delete) = Batches(Len(rm.matchingFiles))
               /\ \A j \in 1..Len(rm.matchingFiles) :
                    Cardinality({k \in 1..Len(rm.calls.delete) :
                        rm.matchingFiles[j].id \in Range(rm.calls.delete[k])}) = 1]_vars

C36_Witness ==
    /\ RmDone /\ rm.res.status = 200
    /\ rm.res.totalMatched = batchSize + 1
    /\ Len(rm.calls.delete) = 2
    /\ Len(rm.calls.delete[1]) = batchSize
    /\ Len(rm.calls.delete[2]) = 1

\* the number of entries of the details whose deleted flag is true
FlaggedDeleted(res) == Cardinality({k \in 1..Len(res.details) : res.details[k].deleted})

\* C37: in every success response of a remove request, filesRemoved <=
\* totalMatched <= MAX_DELETE_PER_REQUEST, and filesRemoved is the number of
\* details entries whose deleted flag is true.
C37_CountsAgree ==
    (RmDone /\ rm.res.success /\ rm.res.status = 200)
        => /\ rm.res.filesRemoved = FlaggedDeleted(rm.res)
           /\ rm.res.totalMatched # NoInt
                => /\ rm.res.filesRemoved <= rm.res.totalMatched
                   /\ rm.res.totalMatched <= MAX_DELETE_PER_REQUEST

C4_BadSizeRejected ==
    \A r \in Reqs :
        (ReachedValidation(r) /\ BadSize(req[r].body))
            => /\ req[r].calls = NoCalls
               /\ Done(r) /\ req[r].res.status = 400

\* C5: a well-formed upload under the size ceiling ends in a success (200,
\* success: true) with a non-empty url or in a failure with an error.
WellFormed(b) ==
    /\ SyntaxOk(b)
    /\ BufferLength(b.image.payload) \in 1..SizeCeiling
C5_SuccessHasUrl ==
    \A r \in Reqs :
        (Done(r) /\ req[r].method = "POST" /\ WellFormed(req[r].body))
            => /\ req[r].res.body
               /\ \/ /\ req[r].res.success
                     /\ req[r].res.status = 200
                     /\ Truthy(req[r].res.url)
                  \/ /\ ~req[r].res.success
                     /\ req[r].res.error # Null

\* C6: every execution of the polling loop ends (in ready, failed or
\* timeout): a request that is polling eventually is polling no more.
C6_PollingTerminates ==
    \A r \in Reqs : Polling(r) ~> ~Polling(r)

C6_Witness ==
    \E r \in Reqs :
        /\ Done(r)
        /\ req[r].res.details = TimeoutMessage
        /\ req[r].calls.status >= 2

\* C7: when the loop test finds the wait ceiling reached while the asset is
\* still pending, the upload fails with the timeout error and the response
\* carries the id of the created asset.
C7_TimeoutCarriesFileId ==
    [][\A r \in Reqs :
        (req[r].pc = "pollSleep" /\ now >= req[r].endTime /\ req'[r] # req[r])
            => /\ req'[r].pc = "done"
               /\ req'[r].res.status = 500
               /\ ~req'[r].res.success
               /\ req'[r].res.error = "Image processing timeout"
               /\ req'[r].res.details = TimeoutMessage
               /\ req'[r].res.fileId = req[r].createdFile.id
               /\ req'[r].res.fileId \in AssetIds]_vars

C7_Witness ==
    \E r \in Reqs :
        /\ Done(r)
        /\ req[r].res.details = TimeoutMessage
        /\ req[r].res.fileId = AssetIdOf(r)

\* C8: a poll that observes the asset in state FAILED is answered with an
\* error other than the one a timeout is answered with.
C8_FailedIsNotTimeout ==
    \A r \in Reqs :
        (Done(r) /\ req[r].res.details = "Media processing failed")
            => req[r].res.error # "Image processing timeout"

RemainingOf(ip) ==
    IF rateLimitMap[ip].count > RATE_LIMIT THEN 0
    ELSE RATE_LIMIT - rateLimitMap[ip].count

====
